---- MODULE Spec2Model ----
(***************************************************************************)
(* Meal lifecycle and daily-summary aggregation of the calorie tracker     *)
(* backend (src/src/services/meal.service.js and its callers).             *)
(*                                                                         *)
(* The record store is modelled as four tables (meals, foodItems,          *)
(* dailySummary, notifications) plus the users' dailyCalorieGoal column.   *)
(* Every request is a process; every await of a handler is one step, so    *)
(* that requests interleave exactly where the event loop lets them.        *)
(***************************************************************************)
EXTENDS Integers, Sequences, FiniteSets, TLC

\* ------------------------------------------------------------------ bounds

\* Requests accepted in one behaviour.
MaxRequests == 3

\* The largest basal metabolic rate a calorie goal is computed for.
MaxBmr == 2000

\* The largest number of API keys in GEMINI_API_KEY.
MaxKeys == 3

\* ------------------------------------------------------- program constants

\* JS null / undefined of a nullable numeric column or aggregate.
NULL == -1

\* JS null / undefined of a string column or argument.
NoString == ""

\* `user?.dailyCalorieGoal || 2000`
DEFAULT_CALORIE_GOAL == 2000

\* Milliseconds of one calendar day; setHours(23, 59, 59, 999) is its last one.
MsPerDay == 24 * 60 * 60 * 1000

\* --------------------------------------------------------------- input sets

Users == {"u1", "u2"}
Procs == {"p1", "p2"}

\* Timestamps a client sends as mealDate: the last millisecond of day 0 and
\* the first millisecond of day 1.
MealDates == {MsPerDay - 1, MsPerDay}

\* Values of users.dailyCalorieGoal (NULL: never computed).
GoalValues == {NULL, 1800}

\* Bodies of createMeal requests; protein, carbs and fats are optional, and a
\* food item is modelled by its foodName.
CreateBodies ==
  { [totalCalories |-> 2, protein |-> 1, carbs |-> NULL, fats |-> 3,
     foodItems |-> <<"A", "B">>],
    [totalCalories |-> 0, protein |-> NULL, carbs |-> NULL, fats |-> NULL,
     foodItems |-> <<>>] }

\* Bodies of updateMeal requests: a key is present iff it is in the DOMAIN.
Patches ==
  { [totalCalories |-> 5, carbs |-> 4],
    [mealDate |-> MsPerDay],
    [foodItems |-> <<>>],
    [totalCalories |-> 1, mealDate |-> MsPerDay - 1, foodItems |-> <<"C">>] }

\* What the clients send when requests run one at a time ...
SeqInputs ==
  [users |-> Users, dates |-> MealDates, bodies |-> CreateBodies, patches |-> Patches]

\* ... and when two requests of one user overlap.
ConcInputs ==
  [users |-> {"u1"}, dates |-> {MsPerDay - 1},
   bodies |-> { b \in CreateBodies : b.totalCalories > 0 },
   patches |-> { q \in Patches : "mealDate" \notin DOMAIN q }]

\* ... and when two users work on each other's ids.
OwnerInputs ==
  [users |-> Users, dates |-> {MsPerDay - 1},
   bodies |-> { b \in CreateBodies : b.totalCalories > 0 },
   patches |-> { q \in Patches : "mealDate" \notin DOMAIN q }]

\* ... and before a report on the days tracked is asked for.
TrackedInputs ==
  [users |-> {"u1"}, dates |-> MealDates,
   bodies |-> { b \in CreateBodies : b.totalCalories > 0 },
   patches |-> { q \in Patches : "mealDate" \in DOMAIN q }]

\* ... and in the runs where a recompute may fail.
CrashInputs ==
  [users |-> {"u1"}, dates |-> MealDates, bodies |-> CreateBodies, patches |-> Patches]

\* The health columns of a user right after registration.
Registered ==
  [ age |-> NULL, weight |-> NULL, height |-> NULL, gender |-> NoString,
    activityLevel |-> NULL, goal |-> NoString, bmi |-> NULL, isOnboarded |-> FALSE,
    fcmToken |-> NoString ]

\* Device tokens sent to PATCH /api/users/fcm-token.
Tokens == {"t1", "t2"}

\* Bodies of completeOnboarding requests (onboardingSchema: every key required).
OnboardingBodies ==
  [ age : {13, 120}, weight : {20, 70}, height : {50, 175},
    gender : {"male", "female"}, activityLevel : {1200, 1550},
    goal : {"lose", "maintain"} ]

\* ... and those sent by onboarding requests that overlap.
OverlapBodies ==
  { b \in OnboardingBodies :
      /\ b.age = 13 /\ b.height = 175 /\ b.gender = "male"
      /\ b.activityLevel = 1200 /\ b.goal = "maintain" }

\* Bodies of updateProfile requests (updateProfileSchema: every key optional).
ProfilePatches ==
  { [weight |-> 90], [goal |-> "gain"], [age |-> 40, gender |-> "female"],
    [activityLevel |-> 1375],
    [age |-> 30, weight |-> 60, height |-> 160, gender |-> "male"] }

\* The moments the analytics are asked at: the day the month starts on, the
\* Monday of the current week and today, as days from the epoch (today is
\* day 0, a Thursday and the 8th of the month), and the month's number of days.
Months ==
  { [startDay |-> -7, monday |-> -3, today |-> 0, days |-> n] :
      n \in {28, 29, 30, 31} }

\* The first millisecond of day k of month m (day 0: the day before the month).
MonthDay(m, k) == (m.startDay + k - 1) * MsPerDay

\* Days of the month with a summary row when the analytics are asked, and the
\* calories of the one meal logged on each; on day 1 the meal was deleted again.
TrackedDays == {0, 1, 7, 8, 28, 29, 31}
CaloriesOn(k) == IF k = 7 THEN 2500 ELSE 100 * k + 1

\* Values of users.dailyCalorieGoal when the analytics are asked: never
\* computed, a usual one, and the goals of a "lose" user with a bmr of 333 and
\* of 99 at activity level 1.2 (0 and -281).
AnalyticsGoals == {NULL, 1800, 0, -281}

VARIABLES
  meals,             \* table Meal: set of rows
  foodItems,         \* table FoodItem: set of rows [mealId, idx, foodName]
  dailySummary,      \* table DailySummary: set of rows
  notifications,     \* table Notification: set of rows
  dailyCalorieGoal,  \* column User.dailyCalorieGoal, per user
  nextMealId,        \* next id the store gives to a created meal
  nextNotificationId,\* next id the store gives to a created notification
  pc,                \* per request: the await it is suspended at
  req,               \* per request: handler and arguments
  existingMeal,      \* per request: local `existingMeal` (with foodItems)
  aggregation,       \* per request: local `aggregation` of updateDailySummary
  user,              \* per request: local `user` of updateDailySummary
  tx,                \* per request: pending writes of the open transaction
  result,            \* per request: outcome of the handler
  started,           \* requests accepted so far
  crashed,           \* (user, day) keys whose recompute once failed after a meal write
  profile,           \* table User: the health columns of each user
  clock,             \* the current month, as the analytics handlers' new Date() sees it
  report,            \* the value the last analytics call returned
  gemini             \* config/gemini: number of keys in the pool and currentKeyIndex

vars == << meals, foodItems, dailySummary, notifications, dailyCalorieGoal,
           nextMealId, nextNotificationId, pc, req, existingMeal, aggregation, user, tx, result,
           started, crashed, profile, clock, report, gemini >>

db == << meals, foodItems, dailySummary, notifications, dailyCalorieGoal,
        nextMealId, nextNotificationId >>

\* ------------------------------------------------------------- pure helpers

\* `x || 0` on a number or null.
OrZero(x) == IF x = NULL \/ x = 0 THEN 0 ELSE x

\* Mutant of GoalOrDefault: only a missing goal is replaced (?? for ||).
GoalOrDefaultNullish(u) ==
  IF ~u.found \/ u.dailyCalorieGoal = NULL
    THEN DEFAULT_CALORIE_GOAL
    ELSE u.dailyCalorieGoal

\* `user?.dailyCalorieGoal || 2000`
GoalOrDefault(u) ==
  IF ~u.found \/ u.dailyCalorieGoal = NULL \/ u.dailyCalorieGoal = 0
    THEN DEFAULT_CALORIE_GOAL
    ELSE u.dailyCalorieGoal

\* new Date(date).setHours(0, 0, 0, 0)
DayStart(date) == date - (date % MsPerDay)

\* new Date(date).setHours(23, 59, 59, 999)
DayEnd(date) == DayStart(date) + (MsPerDay - 1)

\* SQL SUM over a nullable column: NULL values are skipped, no value gives NULL.
RECURSIVE SumField(_, _)
SumField(rows, f) ==
  IF rows = {} THEN NULL
  ELSE LET r == CHOOSE x \in rows : TRUE
           rest == SumField(rows \ {r}, f)
       IN  IF r[f] = NULL THEN rest
           ELSE IF rest = NULL THEN r[f]
           ELSE r[f] + rest

\* Mutant of MealsOfDay: the end of the day is excluded (lt for lte).
MealsOfDayExclusive(ms, u, dayStart, dayEnd) ==
  { m \in ms : m.userId = u /\ m.mealDate >= dayStart /\ m.mealDate < dayEnd }

\* where: { userId, mealDate: { gte: dayStart, lte: dayEnd } }
MealsOfDay(ms, u, dayStart, dayEnd) ==
  { m \in ms : m.userId = u /\ m.mealDate >= dayStart /\ m.mealDate <= dayEnd }

\* prisma.meal.aggregate({ where, _sum: {...}, _count: true })
AggregateMeals(ms, u, dayStart, dayEnd) ==
  LET rows == MealsOfDay(ms, u, dayStart, dayEnd)
  IN  [ sumCalories |-> SumField(rows, "totalCalories"),
        sumProtein  |-> SumField(rows, "protein"),
        sumCarbs    |-> SumField(rows, "carbs"),
        sumFats     |-> SumField(rows, "fats"),
        count       |-> Cardinality(rows) ]

\* The column values updateDailySummary hands to the upsert.
SummaryData(agg, u) ==
  [ totalCalories |-> OrZero(agg.sumCalories),
    totalProtein  |-> OrZero(agg.sumProtein),
    totalCarbs    |-> OrZero(agg.sumCarbs),
    totalFats     |-> OrZero(agg.sumFats),
    calorieGoal   |-> GoalOrDefault(u),
    mealsCount    |-> agg.count ]

SummaryRow(u, dayStart, data) ==
  [ userId |-> u, date |-> dayStart,
    totalCalories |-> data.totalCalories, totalProtein |-> data.totalProtein,
    totalCarbs |-> data.totalCarbs, totalFats |-> data.totalFats,
    calorieGoal |-> data.calorieGoal, mealsCount |-> data.mealsCount ]

\* Rows of the summary table under the key userId_date.
SummaryRows(store, u, dayStart) ==
  { s \in store : s.userId = u /\ s.date = dayStart }

\* Mutant of Upsert: a day left without meals loses its row.
UpsertDropsEmpty(store, u, dayStart, data) ==
  IF data.mealsCount = 0
    THEN store \ SummaryRows(store, u, dayStart)
    ELSE (store \ SummaryRows(store, u, dayStart)) \cup {SummaryRow(u, dayStart, data)}

\* Mutant of Upsert: the row is inserted without looking for an existing one.
UpsertAlwaysInserts(store, u, dayStart, data) ==
  store \cup {SummaryRow(u, dayStart, data)}

\* Mutant of Upsert: the update adds the totals to those of the stored row.
UpsertAccumulates(store, u, dayStart, data) ==
  LET old == SummaryRows(store, u, dayStart)
  IN  IF old /= {}
        THEN (store \ old) \cup
             { [s EXCEPT !.totalCalories = @ + data.totalCalories,
                         !.totalProtein = @ + data.totalProtein,
                         !.totalCarbs = @ + data.totalCarbs,
                         !.totalFats = @ + data.totalFats,
                         !.calorieGoal = data.calorieGoal,
                         !.mealsCount = @ + data.mealsCount] : s \in old }
        ELSE store \cup {SummaryRow(u, dayStart, data)}

\* Mutant of Upsert: a row that exists is left as it is (empty update).
UpsertKeepsExisting(store, u, dayStart, data) ==
  IF SummaryRows(store, u, dayStart) /= {}
    THEN store
    ELSE store \cup {SummaryRow(u, dayStart, data)}

\* prisma.dailySummary.upsert({ where: { userId_date }, update, create })
Upsert(store, u, dayStart, data) ==
  IF SummaryRows(store, u, dayStart) /= {}
    THEN (store \ SummaryRows(store, u, dayStart)) \cup {SummaryRow(u, dayStart, data)}
    ELSE store \cup {SummaryRow(u, dayStart, data)}

\* foodItems: { create: foodItems.map(...) } / createMany: one row per element.
ItemRows(mealId, items) ==
  { [mealId |-> mealId, idx |-> i, foodName |-> items[i]] : i \in 1..Len(items) }

ItemsOf(fi, mealId) == { i \in fi : i.mealId = mealId }

\* Mutant of GetMealById: the owner is not part of the lookup.
GetMealByIdAnyOwner(ms, fi, mealId, userId) ==
  IF \E m \in ms : m.id = mealId
    THEN LET m == CHOOSE x \in ms : x.id = mealId
         IN  [found |-> TRUE, meal |-> m, foodItems |-> ItemsOf(fi, mealId)]
    ELSE [found |-> FALSE]

\* prisma.meal.findFirst({ where: { id: mealId, userId }, include: { foodItems } })
GetMealById(ms, fi, mealId, userId) ==
  IF \E m \in ms : m.id = mealId /\ m.userId = userId
    THEN LET m == CHOOSE x \in ms : x.id = mealId /\ x.userId = userId
         IN  [found |-> TRUE, meal |-> m, foodItems |-> ItemsOf(fi, mealId)]
    ELSE [found |-> FALSE]

\* prisma.user.findUnique({ where: { id }, select: { dailyCalorieGoal: true } })
FindUser(goals, u) ==
  IF u \in DOMAIN goals
    THEN [found |-> TRUE, dailyCalorieGoal |-> goals[u]]
    ELSE [found |-> FALSE]

\* tx.meal.update({ where: { id }, data: mealData }): keys absent from the
\* body keep their stored value; foodItems is split off before the call.
ApplyPatch(m, patch) ==
  [ f \in DOMAIN m |->
      IF f \in (DOMAIN patch) \ {"foodItems"} THEN patch[f] ELSE m[f] ]

\* Mutant of CascadeItems: the food items of a deleted meal stay behind.
CascadeItemsNone(fi, mealId) == fi

\* Referential action of FoodItem.meal when its Meal row is deleted.
CascadeItems(fi, mealId) == fi \ ItemsOf(fi, mealId)

\* ----------------------------------------------------------- health metrics
\* Numbers with a fraction are kept as scaled integers: an activity level in
\* thousandths (1.375 is 1375), a bmi in tenths (22.9 is 229).

\* Mutant of Round: the fraction is cut off.
RoundDown(n, d) == n \div d

\* Math.round of the fraction n / d (d > 0): the nearest integer, a tie going up.
Round(n, d) == (2 * n + d) \div (2 * d)

\* Mutant of CalculateBMI: only a missing input is refused, not one below zero.
CalculateBMIUnchecked(weight, height) ==
  IF weight = NULL \/ height = NULL \/ weight = 0 \/ height = 0
    THEN NULL
    ELSE Round(weight * 100000, height * height)

\* calculateBMI(weight, height), in tenths.
CalculateBMI(weight, height) ==
  IF weight = NULL \/ height = NULL \/ weight <= 0 \/ height <= 0
    THEN NULL
    ELSE Round(weight * 100000, height * height)

\* gender.toLowerCase(), on the gender strings of the model.
ToLowerCase(str) ==
  CASE str = "Male" -> "male"
    [] str = "MALE" -> "male"
    [] str = "FEMALE" -> "female"
    [] str = "Other" -> "other"
    [] OTHER -> str

\* Mutant of CalculateBMR: the sum is cut off, not rounded.
CalculateBMRTruncated(weight, height, age, gender) ==
  IF weight = NULL \/ height = NULL \/ age = NULL \/ gender = NoString
    THEN NULL
  ELSE IF weight <= 0 \/ height <= 0 \/ age <= 0
    THEN NULL
  ELSE IF ToLowerCase(gender) = "male"
    THEN (66470 + 13750 * weight + 5003 * height - 6755 * age) \div 1000
  ELSE IF ToLowerCase(gender) = "female"
    THEN (655100 + 9563 * weight + 1850 * height - 4676 * age) \div 1000
  ELSE NULL

\* calculateBMR(weight, height, age, gender): Harris-Benedict, rounded. The
\* sum is taken in exact thousandths; where it ends in exactly .5 the sum of
\* doubles may fall on either side of the tie.
CalculateBMR(weight, height, age, gender) ==
  IF weight = NULL \/ height = NULL \/ age = NULL \/ gender = NoString
    THEN NULL
  ELSE IF weight <= 0 \/ height <= 0 \/ age <= 0
    THEN NULL
  ELSE IF ToLowerCase(gender) = "male"
    THEN Round(66470 + 13750 * weight + 5003 * height - 6755 * age, 1000)
  ELSE IF ToLowerCase(gender) = "female"
    THEN Round(655100 + 9563 * weight + 1850 * height - 4676 * age, 1000)
  ELSE NULL

\* Mutant of GoalAdjustment: "lose" is not adjusted.
GoalAdjustmentGainOnly(goal) == IF goal = "gain" THEN 500 ELSE 0

\* `if (goal === "lose") -= 400; else if (goal === "gain") += 500`
GoalAdjustment(goal) ==
  IF goal = "lose" THEN -400 ELSE IF goal = "gain" THEN 500 ELSE 0

\* calculateDailyCalorieGoal(bmr, activityLevel, goal): the adjustment is
\* applied to the product, the result is rounded.
CalculateDailyCalorieGoal(bmr, activityLevel, goal) ==
  IF bmr = NULL \/ activityLevel = NULL \/ bmr <= 0 \/ activityLevel <= 0
    THEN NULL
    ELSE Round(bmr * activityLevel + 1000 * GoalAdjustment(goal), 1000)

\* calculateHealthMetrics({ weight, height, age, gender, activityLevel, goal })
CalculateHealthMetrics(d) ==
  [ bmi |-> CalculateBMI(d.weight, d.height),
    bmr |-> CalculateBMR(d.weight, d.height, d.age, d.gender),
    dailyCalorieGoal |->
      CalculateDailyCalorieGoal(CalculateBMR(d.weight, d.height, d.age, d.gender),
                                d.activityLevel, d.goal) ]

\* ------------------------------------------------------------- transactions

NoTx == [open |-> FALSE]

\* prisma.$transaction(async (tx) => ...): a statement run on tx is pending
\* until the callback resolves.
TxBegin == [open |-> TRUE, meal |-> {}, deleted |-> {}, created |-> {}]

\* The tables as the store holds them once the pending writes are applied.
TxApplyMeals(ms, t) ==
  { m \in ms : \A w \in t.meal : w.id /= m.id } \cup t.meal

TxApplyItems(fi, t) ==
  { i \in fi : i.mealId \notin t.deleted } \cup t.created

\* The callback resolved: the pending writes become visible together.
TxCommit(ms, fi, t) ==
  [meals |-> TxApplyMeals(ms, t), foodItems |-> TxApplyItems(fi, t)]

\* Mutant of TxRollback: the statements already run stay applied.
TxRollbackKeepsWrites(ms, fi, t) ==
  IF t.open THEN TxCommit(ms, fi, t) ELSE [meals |-> ms, foodItems |-> fi]

\* The callback threw or the timeout expired: the pending writes are dropped.
TxRollback(ms, fi, t) == [meals |-> ms, foodItems |-> fi]

\* Mutant of TxDeleteMany: the existing food items are kept.
TxDeleteManySkipped(t, mealId) == t

\* tx.foodItem.deleteMany({ where: { mealId } })
TxDeleteMany(t, mealId) == [t EXCEPT !.deleted = @ \cup {mealId}]

\* tx.foodItem.createMany({ data: foodItems.map(...) })
TxCreateMany(t, mealId, items) == [t EXCEPT !.created = @ \cup ItemRows(mealId, items)]

\* The row of meal `id` is written by a transaction that is still open.
RowLocked(id) ==
  \E q \in DOMAIN tx : tx[q].open /\ \E w \in tx[q].meal : w.id = id

\* ----------------------------------------------------------------- requests

NoReq == [kind |-> "none"]
NotRead == [found |-> FALSE]
NoResult == [status |-> "none", at |-> "idle"]
NoReport == [kind |-> "none"]

\* The key pool of config/gemini after initializeGemini with a single key.
OneKey == [keys |-> 1, currentKeyIndex |-> 0]

\* Mutant of SummaryDate: updateMeal recomputes the day of the patched date.
SummaryDateAfterPatch(p) ==
  IF req[p].kind = "createMeal"
    THEN req[p].mealDate
    ELSE IF req[p].kind = "updateMeal" /\ "mealDate" \in DOMAIN req[p].patch
      THEN req[p].patch.mealDate
      ELSE existingMeal[p].meal.mealDate

\* The date updateDailySummary is called with by the handler of request p.
SummaryDate(p) ==
  IF req[p].kind = "createMeal"
    THEN req[p].mealDate
    ELSE existingMeal[p].meal.mealDate

SummaryUser(p) == req[p].userId

\* Mutant of Aggregated: the meals are aggregated again at the upsert.
AggregatedAtUpsert(p) ==
  AggregateMeals(meals, SummaryUser(p),
                 DayStart(SummaryDate(p)), DayEnd(SummaryDate(p)))

\* The `aggregation` the totals of the upsert are taken from: the result of
\* the earlier await, not a fresh read.
Aggregated(p) == aggregation[p].agg

\* updateDailySummary(userId, date) run to its end with nothing in between.
UpdateDailySummary(store, ms, goals, u, date) ==
  Upsert(store, u, DayStart(date),
         SummaryData(AggregateMeals(ms, u, DayStart(date), DayEnd(date)),
                     FindUser(goals, u)))

Init ==
  /\ meals = {}
  /\ foodItems = {}
  /\ dailySummary = {}
  /\ notifications = {}
  /\ dailyCalorieGoal = [u \in Users |-> NULL]
  /\ nextMealId = 1
  /\ nextNotificationId = 1
  /\ pc = [p \in Procs |-> "idle"]
  /\ req = [p \in Procs |-> NoReq]
  /\ existingMeal = [p \in Procs |-> NotRead]
  /\ aggregation = [p \in Procs |-> NotRead]
  /\ user = [p \in Procs |-> NotRead]
  /\ tx = [p \in Procs |-> NoTx]
  /\ result = [p \in Procs |-> NoResult]
  /\ started = 0
  /\ crashed = {}
  /\ profile = [u \in Users |-> Registered]
  /\ clock = CHOOSE m \in Months : m.days = 30
  /\ gemini = OneKey
  /\ report = NoReport

\* The state the meal handlers never write.
aside == << profile, clock, report, gemini >>

locals == << existingMeal, aggregation, user, tx >>

\* The server accepts one more request.
Count ==
  /\ started < MaxRequests
  /\ started' = started + 1

Accept == Count /\ UNCHANGED << crashed, aside >>

\* The handler returns or throws; a thrown error names the await that failed.
Finish(p, outcome) ==
  /\ pc' = [pc EXCEPT ![p] = "done"]
  /\ result' = [result EXCEPT ![p] = [status |-> outcome, at |-> pc[p]]]

\* ---- createMeal (controller + service)

\* POST /api/meals: prisma.meal.create with the nested foodItems create.
CreateMeal(p, I) ==
  /\ pc[p] = "idle"
  /\ Accept
  /\ \E u \in I.users, d \in I.dates, n \in I.bodies :
       /\ req' = [req EXCEPT ![p] =
                    [kind |-> "createMeal", userId |-> u, mealId |-> nextMealId,
                     mealDate |-> d]]
       /\ meals' = meals \cup
            { [id |-> nextMealId, userId |-> u, mealDate |-> d,
               totalCalories |-> n.totalCalories, protein |-> n.protein,
               carbs |-> n.carbs, fats |-> n.fats] }
       /\ foodItems' = foodItems \cup
            (IF Len(n.foodItems) > 0 THEN ItemRows(nextMealId, n.foodItems) ELSE {})
  /\ nextMealId' = nextMealId + 1
  /\ pc' = [pc EXCEPT ![p] = "uds_aggregate"]
  /\ UNCHANGED << dailySummary, notifications, nextNotificationId,
                  dailyCalorieGoal, locals, result >>

\* ---- updateDailySummary

\* await prisma.meal.aggregate(...)
UpdateDailySummary_Aggregate(p) ==
  /\ pc[p] = "uds_aggregate"
  /\ aggregation' = [aggregation EXCEPT ![p] =
       [found |-> TRUE,
        agg |-> AggregateMeals(meals, SummaryUser(p),
                               DayStart(SummaryDate(p)), DayEnd(SummaryDate(p)))]]
  /\ pc' = [pc EXCEPT ![p] = "uds_findUser"]
  /\ UNCHANGED << db, req, existingMeal, user, tx, result >>

\* await prisma.user.findUnique(...)
UpdateDailySummary_FindUser(p) ==
  /\ pc[p] = "uds_findUser"
  /\ user' = [user EXCEPT ![p] = FindUser(dailyCalorieGoal, SummaryUser(p))]
  /\ pc' = [pc EXCEPT ![p] = "uds_upsert"]
  /\ UNCHANGED << db, req, existingMeal, aggregation, tx, result >>

\* return prisma.dailySummary.upsert(...), awaited by the calling handler.
UpdateDailySummary_Upsert(p) ==
  /\ pc[p] = "uds_upsert"
  /\ dailySummary' = Upsert(dailySummary, SummaryUser(p), DayStart(SummaryDate(p)),
                            SummaryData(Aggregated(p), user[p]))
  /\ IF req[p].kind = "createMeal"
       THEN pc' = [pc EXCEPT ![p] = "notify"] /\ UNCHANGED result
       ELSE Finish(p, "ok")
  /\ UNCHANGED << meals, foodItems, notifications, nextNotificationId,
                  dailyCalorieGoal, nextMealId, req, locals >>

\* The (user, day) key the recompute of request p is for.
SummaryKey(p) == << SummaryUser(p), DayStart(SummaryDate(p)) >>

InRecompute(p) == pc[p] \in {"uds_aggregate", "uds_findUser", "uds_upsert"}

\* An await of updateDailySummary rejects (or the process dies there): the
\* handler throws after its meal write, and the summary row is left as it was.
UpdateDailySummary_Fails(p) ==
  /\ InRecompute(p)
  /\ crashed' = crashed \cup {SummaryKey(p)}
  /\ Finish(p, "error")
  /\ UNCHANGED << db, req, locals >>

\* ---- createMeal, continued: notificationService.createAndSendNotification

\* saveNotification stores the row; sendPushNotification catches its errors.
CreateMeal_Notify(p) ==
  /\ pc[p] = "notify"
  /\ notifications' = notifications \cup
       { [id |-> nextNotificationId, userId |-> req[p].userId,
          type |-> "MEAL_LOGGED", isRead |-> FALSE] }
  /\ nextNotificationId' = nextNotificationId + 1
  /\ Finish(p, "ok")
  /\ UNCHANGED << meals, foodItems, dailySummary, dailyCalorieGoal, nextMealId,
                  req, locals >>

\* prisma.notification.create rejects: the error leaves createMeal uncaught.
CreateMeal_NotifyFails(p) ==
  /\ pc[p] = "notify"
  /\ Finish(p, "error")
  /\ UNCHANGED << db, req, locals >>

\* ---- updateMeal (controller + service)

\* PUT /api/meals/:id: `existingMeal = await getMealById(mealId, userId)`;
\* a miss returns null, which the controller answers with 404.
UpdateMeal(p, I) ==
  /\ pc[p] = "idle"
  /\ Accept
  /\ \E u \in I.users, id \in 1..nextMealId, patch \in I.patches :
       LET found == GetMealById(meals, foodItems, id, u)
       IN  /\ req' = [req EXCEPT ![p] =
                        [kind |-> "updateMeal", userId |-> u, mealId |-> id,
                         patch |-> patch]]
           /\ existingMeal' = [existingMeal EXCEPT ![p] = found]
           /\ IF found.found
                THEN pc' = [pc EXCEPT ![p] = "tx_update"] /\ UNCHANGED result
                ELSE Finish(p, "notfound")
  /\ UNCHANGED << db, aggregation, user, tx >>

\* Mutant of HasFoodItems: the food items are replaced by every update.
HasFoodItemsAlways(p) == TRUE

\* `foodItems !== undefined`
HasFoodItems(p) == "foodItems" \in DOMAIN req[p].patch

\* `foodItems` of the destructured body: no items where the key is absent.
PatchFoodItems(p) ==
  IF "foodItems" \in DOMAIN req[p].patch THEN req[p].patch.foodItems ELSE <<>>

\* tx.meal.update({ where: { id: mealId }, data: mealData }); the statement
\* waits while another open transaction holds the row.
UpdateMeal_TxUpdate(p) ==
  /\ pc[p] = "tx_update"
  /\ \E m \in meals :
       /\ m.id = req[p].mealId
       /\ ~RowLocked(m.id)
       /\ tx' = [tx EXCEPT ![p] =
                   [TxBegin EXCEPT !.meal = {ApplyPatch(m, req[p].patch)}]]
  /\ pc' = [pc EXCEPT ![p] =
              IF HasFoodItems(p) THEN "tx_deleteMany" ELSE "tx_commit"]
  /\ UNCHANGED << db, req, existingMeal, aggregation, user, result >>

\* `if (foodItems !== undefined)`: the existing food items are deleted.
UpdateMeal_TxDeleteMany(p) ==
  /\ pc[p] = "tx_deleteMany"
  /\ tx' = [tx EXCEPT ![p] = TxDeleteMany(@, req[p].mealId)]
  /\ pc' = [pc EXCEPT ![p] =
              IF Len(PatchFoodItems(p)) > 0 THEN "tx_createMany" ELSE "tx_commit"]
  /\ UNCHANGED << db, req, existingMeal, aggregation, user, result >>

\* `if (foodItems && foodItems.length > 0)`: the new food items are created.
UpdateMeal_TxCreateMany(p) ==
  /\ pc[p] = "tx_createMany"
  /\ tx' = [tx EXCEPT ![p] =
              TxCreateMany(@, req[p].mealId, PatchFoodItems(p))]
  /\ pc' = [pc EXCEPT ![p] = "tx_commit"]
  /\ UNCHANGED << db, req, existingMeal, aggregation, user, result >>

\* tx.meal.findUnique(...) and the callback's return: the transaction commits.
UpdateMeal_TxCommit(p) ==
  /\ pc[p] = "tx_commit"
  /\ LET c == TxCommit(meals, foodItems, tx[p])
     IN  meals' = c.meals /\ foodItems' = c.foodItems
  /\ tx' = [tx EXCEPT ![p] = NoTx]
  /\ pc' = [pc EXCEPT ![p] = "uds_aggregate"]
  /\ UNCHANGED << dailySummary, notifications, nextNotificationId,
                  dailyCalorieGoal, nextMealId, req, existingMeal, aggregation,
                  user, result >>

TxStages == {"tx_update", "tx_deleteMany", "tx_createMany", "tx_commit"}

InTx(p) == pc[p] \in TxStages

\* A statement of the callback throws (the row is gone, the store fails) or
\* the transaction times out: prisma.$transaction rejects and updateMeal
\* throws before it reaches updateDailySummary.
UpdateMeal_TxFails(p) ==
  /\ InTx(p)
  /\ LET r == TxRollback(meals, foodItems, tx[p])
     IN  meals' = r.meals /\ foodItems' = r.foodItems
  /\ tx' = [tx EXCEPT ![p] = NoTx]
  /\ Finish(p, "error")
  /\ UNCHANGED << dailySummary, notifications, nextNotificationId,
                  dailyCalorieGoal, nextMealId, req, existingMeal, aggregation,
                  user >>

\* ---- deleteMeal (controller + service)

\* DELETE /api/meals/:id: the controller's own getMealById; a miss is a 404.
DeleteMeal(p, I) ==
  /\ pc[p] = "idle"
  /\ Accept
  /\ \E u \in I.users, id \in 1..nextMealId :
       /\ req' = [req EXCEPT ![p] =
                    [kind |-> "deleteMeal", userId |-> u, mealId |-> id]]
       /\ IF GetMealById(meals, foodItems, id, u).found
            THEN pc' = [pc EXCEPT ![p] = "d_getMealById"] /\ UNCHANGED result
            ELSE Finish(p, "notfound")
  /\ UNCHANGED << db, locals >>

\* mealService.deleteMeal: `existingMeal = await getMealById(mealId, userId)`;
\* a miss returns null, which the controller does not look at.
DeleteMeal_GetMealById(p) ==
  /\ pc[p] = "d_getMealById"
  /\ LET found == GetMealById(meals, foodItems, req[p].mealId, req[p].userId)
     IN  /\ existingMeal' = [existingMeal EXCEPT ![p] = found]
         /\ IF found.found
              THEN pc' = [pc EXCEPT ![p] = "d_delete"] /\ UNCHANGED result
              ELSE Finish(p, "ok")
  /\ UNCHANGED << db, req, aggregation, user, tx >>

\* prisma.meal.delete({ where: { id: mealId } }); its food items go with it.
DeleteMeal_Delete(p) ==
  /\ pc[p] = "d_delete"
  /\ \E m \in meals :
       /\ m.id = req[p].mealId
       /\ ~RowLocked(m.id)
       /\ meals' = meals \ {m}
       /\ foodItems' = CascadeItems(foodItems, m.id)
  /\ pc' = [pc EXCEPT ![p] = "uds_aggregate"]
  /\ UNCHANGED << dailySummary, notifications, nextNotificationId,
                  dailyCalorieGoal, nextMealId, req, locals, result >>

\* prisma.meal.delete finds no row (it was deleted meanwhile) and throws.
DeleteMeal_DeleteFails(p) ==
  /\ pc[p] = "d_delete"
  /\ \A m \in meals : m.id /= req[p].mealId
  /\ Finish(p, "error")
  /\ UNCHANGED << db, req, locals >>

\* ---- the response is sent; the request's locals are gone.
Return(p) ==
  /\ pc[p] = "done"
  /\ pc' = [pc EXCEPT ![p] = "idle"]
  /\ req' = [req EXCEPT ![p] = NoReq]
  /\ existingMeal' = [existingMeal EXCEPT ![p] = NotRead]
  /\ aggregation' = [aggregation EXCEPT ![p] = NotRead]
  /\ user' = [user EXCEPT ![p] = NotRead]
  /\ tx' = [tx EXCEPT ![p] = NoTx]
  /\ result' = [result EXCEPT ![p] = NoResult]
  /\ UNCHANGED db

\* ---- updateProfile / completeOnboarding: prisma.user.update writes the
\* recomputed dailyCalorieGoal.
UpdateProfile(u) ==
  /\ Accept
  /\ \E g \in GoalValues :
       /\ g /= dailyCalorieGoal[u]
       /\ dailyCalorieGoal' = [dailyCalorieGoal EXCEPT ![u] = g]
  /\ UNCHANGED << meals, foodItems, dailySummary, notifications, nextMealId,
                  nextNotificationId, pc, req, locals, result >>

\* The meal handlers' state, which the profile handlers never write.
mealState == << meals, foodItems, dailySummary, notifications, nextMealId,
               nextNotificationId, pc, req, locals, result, crashed, clock, report,
               gemini >>

\* A number, a string the handlers' `if (finalWeight && ...)` takes as set.
TruthyNumber(x) == x /= NULL /\ x /= 0
TruthyString(x) == x /= NoString

\* Mutant of FinalValue: the stored value is used although the body has one.
FinalValueStored(patch, current, f) == current[f]

\* `const finalWeight = weight ?? currentUser.weight` and its siblings.
FinalValue(patch, current, f) ==
  IF f \in DOMAIN patch THEN patch[f] ELSE current[f]

\* POST /api/users/onboarding: refused for an onboarded user; otherwise the
\* body and the metrics computed from it are stored.
CompleteOnboarding(u) ==
  /\ Count
  /\ ~profile[u].isOnboarded
  /\ \E b \in OnboardingBodies :
       LET metrics == CalculateHealthMetrics(b)
       IN  /\ profile' = [profile EXCEPT ![u] =
                 [ age |-> b.age, weight |-> b.weight, height |-> b.height,
                   gender |-> b.gender, activityLevel |-> b.activityLevel,
                   goal |-> b.goal, bmi |-> metrics.bmi, isOnboarded |-> TRUE,
                   fcmToken |-> profile[u].fcmToken ]]
           /\ dailyCalorieGoal' =
                 [dailyCalorieGoal EXCEPT ![u] = metrics.dailyCalorieGoal]
  /\ UNCHANGED mealState

\* PUT /api/users/profile: the keys of the body are stored; the metrics are
\* recomputed from body and stored values when all five inputs are set.
UpdateProfileFields(u) ==
  /\ Count
  /\ \E patch \in ProfilePatches :
       LET final == [ f \in {"weight", "height", "age", "gender", "activityLevel", "goal"}
                        |-> FinalValue(patch, profile[u], f) ]
           recalc == /\ TruthyNumber(final.weight) /\ TruthyNumber(final.height)
                     /\ TruthyNumber(final.age) /\ TruthyString(final.gender)
                     /\ TruthyNumber(final.activityLevel)
           metrics == CalculateHealthMetrics(final)
       IN  /\ profile' = [profile EXCEPT ![u] =
                 [ f \in DOMAIN profile[u] |->
                     IF f = "bmi" THEN (IF recalc THEN metrics.bmi ELSE profile[u].bmi)
                     ELSE IF f \in DOMAIN patch THEN patch[f]
                     ELSE profile[u][f] ]]
           /\ dailyCalorieGoal' =
                 IF recalc
                   THEN [dailyCalorieGoal EXCEPT ![u] = metrics.dailyCalorieGoal]
                   ELSE dailyCalorieGoal
  /\ UNCHANGED mealState

\* ---- completeOnboarding, await by await

\* What the user handlers leave alone.
userFrame == << meals, foodItems, dailySummary, nextMealId, existingMeal,
                aggregation, user, tx, crashed, clock, report, gemini >>

\* The row prisma.user.update({ where: { id }, data }) leaves.
OnboardingUpdate(current, b) ==
  [ current EXCEPT !.age = b.age, !.weight = b.weight, !.height = b.height,
                   !.gender = b.gender, !.activityLevel = b.activityLevel,
                   !.goal = b.goal, !.bmi = CalculateHealthMetrics(b).bmi,
                   !.isOnboarded = TRUE ]

\* POST /api/users/onboarding: findUnique({ select: { isOnboarded } }); an
\* onboarded user is answered 400.
CompleteOnboarding_Check(p, bodies) ==
  /\ pc[p] = "idle"
  /\ Count
  /\ \E u \in Users, b \in bodies :
       /\ req' = [req EXCEPT ![p] =
                    [kind |-> "completeOnboarding", userId |-> u, body |-> b]]
       /\ IF profile[u].isOnboarded
            THEN Finish(p, "badrequest")
            ELSE pc' = [pc EXCEPT ![p] = "onb_update"] /\ UNCHANGED result
  /\ UNCHANGED << userFrame, notifications, nextNotificationId, dailyCalorieGoal,
                  profile >>

\* The metrics are computed and prisma.user.update stores body and metrics.
CompleteOnboarding_Update(p) ==
  /\ pc[p] = "onb_update"
  /\ LET u == req[p].userId
         b == req[p].body
     IN  /\ profile' = [profile EXCEPT ![u] = OnboardingUpdate(profile[u], b)]
         /\ dailyCalorieGoal' =
               [dailyCalorieGoal EXCEPT ![u] = CalculateHealthMetrics(b).dailyCalorieGoal]
  /\ Finish(p, "ok")
  /\ UNCHANGED << userFrame, notifications, nextNotificationId, req, started >>

\* ---- updateFcmToken

\* PATCH /api/users/fcm-token: a body without a token is answered 400.
UpdateFcmToken(p) ==
  /\ pc[p] = "idle"
  /\ Count
  /\ \E u \in Users, t \in Tokens \cup {NoString}, isLogin \in BOOLEAN :
       /\ req' = [req EXCEPT ![p] =
                    [kind |-> "updateFcmToken", userId |-> u, fcmToken |-> t,
                     isLogin |-> isLogin]]
       /\ IF t = NoString
            THEN Finish(p, "badrequest")
            ELSE pc' = [pc EXCEPT ![p] = "fcm_clear"] /\ UNCHANGED result
  /\ UNCHANGED << userFrame, notifications, nextNotificationId, dailyCalorieGoal,
                  profile >>

\* prisma.user.updateMany({ where: { fcmToken, id: { not: userId } },
\*                          data: { fcmToken: null } })
ClearToken(rows, t, userId) ==
  [ u \in DOMAIN rows |->
      IF rows[u].fcmToken = t /\ u /= userId
        THEN [rows[u] EXCEPT !.fcmToken = NoString]
        ELSE rows[u] ]

\* 1. the token is cleared from the other users.
UpdateFcmToken_Clear(p) ==
  /\ pc[p] = "fcm_clear"
  /\ profile' = ClearToken(profile, req[p].fcmToken, req[p].userId)
  /\ pc' = [pc EXCEPT ![p] = "fcm_assign"]
  /\ UNCHANGED << userFrame, notifications, nextNotificationId, dailyCalorieGoal,
                  req, result, started >>

\* 2. prisma.user.update({ where: { id: userId }, data: { fcmToken } })
UpdateFcmToken_Assign(p) ==
  /\ pc[p] = "fcm_assign"
  /\ profile' = [profile EXCEPT ![req[p].userId].fcmToken = req[p].fcmToken]
  /\ IF req[p].isLogin
       THEN pc' = [pc EXCEPT ![p] = "fcm_greet"] /\ UNCHANGED result
       ELSE Finish(p, "ok")
  /\ UNCHANGED << userFrame, notifications, nextNotificationId, dailyCalorieGoal,
                  req, started >>

\* `if (isLogin)`: the user's name is read and the greeting is sent without
\* being awaited; its notification row is saved, or the save fails and the
\* error is caught. The answer is a success either way.
UpdateFcmToken_Greet(p) ==
  /\ pc[p] = "fcm_greet"
  /\ \/ /\ notifications' = notifications \cup
              { [id |-> nextNotificationId, userId |-> req[p].userId,
                 type |-> "LOGIN_GREETING", isRead |-> FALSE] }
        /\ nextNotificationId' = nextNotificationId + 1
     \/ UNCHANGED << notifications, nextNotificationId >>
  /\ Finish(p, "ok")
  /\ UNCHANGED << userFrame, dailyCalorieGoal, profile, req, started >>

\* ---- notifications: markAsRead, markAllAsRead, deleteNotification

\* Mutant of NotificationsOf: the owner is not part of the filter.
NotificationsOfAnyOwner(ns, id, userId) == { n \in ns : n.id = id }

\* where: { id: notificationId, userId }
NotificationsOf(ns, id, userId) == { n \in ns : n.id = id /\ n.userId = userId }

\* What the notification handlers leave alone.
notificationFrame == << meals, foodItems, dailySummary, dailyCalorieGoal, nextMealId,
                        nextNotificationId, locals, crashed, aside >>

\* PATCH /api/notifications/:id/read: updateMany({ where: { id, userId },
\* data: { isRead: true } }); the answer is a success whatever the count.
MarkAsRead(p) ==
  /\ pc[p] = "idle"
  /\ Count
  /\ \E u \in Users, id \in 1..nextNotificationId :
       /\ req' = [req EXCEPT ![p] =
                    [kind |-> "markAsRead", userId |-> u, notificationId |-> id]]
       /\ notifications' =
            { IF n \in NotificationsOf(notifications, id, u)
                THEN [n EXCEPT !.isRead = TRUE] ELSE n : n \in notifications }
  /\ Finish(p, "ok")
  /\ UNCHANGED notificationFrame

\* PATCH /api/notifications/read-all: updateMany({ where: { userId, isRead:
\* false }, data: { isRead: true } })
MarkAllAsRead(p) ==
  /\ pc[p] = "idle"
  /\ Count
  /\ \E u \in Users :
       /\ req' = [req EXCEPT ![p] = [kind |-> "markAllAsRead", userId |-> u]]
       /\ notifications' =
            { IF n.userId = u /\ ~n.isRead
                THEN [n EXCEPT !.isRead = TRUE] ELSE n : n \in notifications }
  /\ Finish(p, "ok")
  /\ UNCHANGED notificationFrame

\* DELETE /api/notifications/:id: deleteMany({ where: { id, userId } })
DeleteNotification(p) ==
  /\ pc[p] = "idle"
  /\ Count
  /\ \E u \in Users, id \in 1..nextNotificationId :
       /\ req' = [req EXCEPT ![p] =
                    [kind |-> "deleteNotification", userId |-> u, notificationId |-> id]]
       /\ notifications' = notifications \ NotificationsOf(notifications, id, u)
  /\ Finish(p, "ok")
  /\ UNCHANGED notificationFrame

\* ---- analyzeImage / analyzeTextDescription and the key pool

\* Mutant of RotateKey: past the last key the cursor starts over.
RotateKeyWraps(g) ==
  [ rotated |-> TRUE,
    gemini |-> [g EXCEPT !.currentKeyIndex = (@ + 1) % g.keys] ]

\* rotateKey(): the cursor moves to the next key if there is one.
RotateKey(g) ==
  IF g.currentKeyIndex + 1 < g.keys
    THEN [rotated |-> TRUE, gemini |-> [g EXCEPT !.currentKeyIndex = @ + 1]]
    ELSE [rotated |-> FALSE, gemini |-> g]

\* What the analysis handlers leave alone.
geminiFrame == << db, locals, crashed, profile, clock, report >>

\* analyzeImage(buffer, mimeType) or analyzeTextDescription(description) is
\* called: without a model (setupModel failed) it throws, otherwise it goes
\* on to generateContent. `entry` is the cursor at the call and `attempts`
\* the number of generateContent calls made for it.
Analyze(p) ==
  /\ pc[p] = "idle"
  /\ Count
  /\ \E kind \in {"analyzeImage", "analyzeTextDescription"} :
       req' = [req EXCEPT ![p] =
                 [kind |-> kind, entry |-> gemini.currentKeyIndex, attempts |-> 0]]
  /\ \/ pc' = [pc EXCEPT ![p] = "generate"] /\ UNCHANGED result
     \/ Finish(p, "nomodel")
  /\ UNCHANGED << geminiFrame, gemini >>

\* model.generateContent resolves and the text parses: the analysis returns;
\* a text that does not parse gives { success: false } (SyntaxError branch).
Analyze_Succeeds(p) ==
  /\ pc[p] = "generate"
  /\ req' = [req EXCEPT ![p].attempts = @ + 1]
  /\ \/ Finish(p, "ok")
     \/ Finish(p, "unparsable")
  /\ UNCHANGED << geminiFrame, gemini, started >>

\* model.generateContent rejects with an error that is no rate limit: it is
\* thrown on.
Analyze_Fails(p) ==
  /\ pc[p] = "generate"
  /\ req' = [req EXCEPT ![p].attempts = @ + 1]
  /\ Finish(p, "error")
  /\ UNCHANGED << geminiFrame, gemini, started >>

\* model.generateContent rejects with 429 / quota: rotateKey(); if it rotated
\* the handler calls itself again (and throws if the new model could not be
\* set up), otherwise the rate-limit error is thrown.
Analyze_RateLimited(p) ==
  /\ pc[p] = "generate"
  /\ req' = [req EXCEPT ![p].attempts = @ + 1]
  /\ LET r == RotateKey(gemini)
     IN  /\ gemini' = r.gemini
         /\ IF r.rotated
              THEN \/ UNCHANGED << pc, result >>
                   \/ Finish(p, "nomodel")
              ELSE Finish(p, "ratelimited")
  /\ UNCHANGED << geminiFrame, started >>

\* The answer of a finished request has been sent.
Answered(p) == Return(p) /\ UNCHANGED << started, crashed, aside >>

\* ---- analytics

\* Math.round(n / d * k) in JS: not a finite number when d is 0.
RoundedRatio(n, d, k) ==
  IF d = 0 THEN [finite |-> FALSE, value |-> 0]
  ELSE IF d > 0 THEN [finite |-> TRUE, value |-> Round(n * k, d)]
  ELSE [finite |-> TRUE, value |-> Round(-(n * k), -d)]

\* `summary?.totalCalories || 0` for the result of findUnique.
SummaryField(rows, f) ==
  IF rows = {} THEN 0 ELSE OrZero((CHOOSE r \in rows : TRUE)[f])

\* Mutant of Remaining: an exceeded goal leaves 0.
RemainingClamped(calorieGoal, consumed) ==
  IF consumed > calorieGoal THEN 0 ELSE calorieGoal - consumed

\* `const remaining = calorieGoal - consumed`
Remaining(calorieGoal, consumed) == calorieGoal - consumed

\* getDailyAnalytics(userId, date): the two reads of the Promise.all and the
\* arithmetic on their results.
DailyAnalytics(store, goals, u, date) ==
  LET rows == SummaryRows(store, u, DayStart(date))
      calorieGoal == GoalOrDefault(FindUser(goals, u))
      consumed == SummaryField(rows, "totalCalories")
  IN  [ kind |-> "daily", userId |-> u, date |-> DayStart(date),
        calorieGoal |-> calorieGoal,
        consumed |-> consumed,
        remaining |-> Remaining(calorieGoal, consumed),
        percentConsumed |-> RoundedRatio(consumed, calorieGoal, 100),
        protein |-> SummaryField(rows, "totalProtein"),
        carbs |-> SummaryField(rows, "totalCarbs"),
        fats |-> SummaryField(rows, "totalFats"),
        mealsCount |-> SummaryField(rows, "mealsCount") ]

\* GET /api/analytics/daily?date=...
GetDailyAnalytics(u) ==
  /\ report = NoReport
  /\ \E k \in {1, 2, 7, 8} :
       report' = DailyAnalytics(dailySummary, dailyCalorieGoal, u, MonthDay(clock, k) + k)
  /\ UNCHANGED << db, pc, req, locals, result, started, crashed, profile, clock,
                  gemini >>

\* getStartOfWeek() and getEndOfWeek(): Monday 00:00:00.000, Sunday 23:59:59.999.
StartOfWeek == clock.monday * MsPerDay
EndOfWeek == (clock.monday + 6) * MsPerDay + (MsPerDay - 1)

\* where: { userId, date: { gte: start, lte: end } } on the summaries.
SummariesIn(store, u, start, end) ==
  { r \in store : r.userId = u /\ r.date >= start /\ r.date <= end }

\* prisma.dailySummary.aggregate({ where, _sum }) and the `|| 0` on each sum.
SummaryTotals(rows) ==
  [ totalCalories |-> OrZero(SumField(rows, "totalCalories")),
    totalProtein  |-> OrZero(SumField(rows, "totalProtein")),
    totalCarbs    |-> OrZero(SumField(rows, "totalCarbs")),
    totalFats     |-> OrZero(SumField(rows, "totalFats")),
    mealsCount    |-> OrZero(SumField(rows, "mealsCount")) ]

\* `daysTracked > 0 ? Math.round(total / daysTracked) : 0`
Average(total, daysTracked) ==
  IF daysTracked > 0 THEN Round(total, daysTracked) ELSE 0

\* getWeeklyAnalytics, first await: findMany of the week's summaries and the
\* user's goal (Promise.all).
GetWeeklyAnalytics_Fetch(u) ==
  /\ report = NoReport
  /\ report' = [ kind |-> "weekly_fetched", userId |-> u,
                  summaries |-> SummariesIn(dailySummary, u, StartOfWeek, EndOfWeek),
                  dailyCalorieGoal |-> GoalOrDefault(FindUser(dailyCalorieGoal, u)) ]
  /\ UNCHANGED << db, pc, req, locals, result, started, crashed, profile, clock,
                  gemini >>

\* getWeeklyAnalytics, second await: the aggregate query over the same range,
\* run on the store as it is by then; the report is put together.
GetWeeklyAnalytics_Aggregate ==
  /\ report.kind = "weekly_fetched"
  /\ LET totals == SummaryTotals(SummariesIn(dailySummary, report.userId,
                                             StartOfWeek, EndOfWeek))
         daysTracked == Cardinality(report.summaries)
     IN  report' = [ kind |-> "weekly", userId |-> report.userId,
                     dailyCalorieGoal |-> report.dailyCalorieGoal,
                     averageCalories |-> Average(totals.totalCalories, daysTracked),
                     totals |-> totals,
                     daysTracked |-> daysTracked,
                     dailyBreakdown |-> report.summaries ]
  /\ UNCHANGED << db, pc, req, locals, result, started, crashed, profile, clock,
                  gemini >>

\* getStartOfMonth() and getEndOfMonth(): the 1st 00:00:00.000, the last day
\* 23:59:59.999.
StartOfMonth == MonthDay(clock, 1)
EndOfMonth == MonthDay(clock, clock.days) + (MsPerDay - 1)

\* weekStart of window i (0..3): month start plus 7 i days.
WeekStart(m, i) == MonthDay(m, 7 * i + 1)

\* Mutant of WeekEnd: the window ends where the next one starts.
WeekEndNextStart(m, i) == MonthDay(m, 7 * i + 8)

\* weekEnd of window i: weekStart plus 6 days.
WeekEnd(m, i) == MonthDay(m, 7 * i + 7)

\* One entry of weeklyData, from the summaries already fetched.
WeekTrend(summaries, i) ==
  LET weekSummaries ==
        { r \in summaries : r.date >= WeekStart(clock, i) /\ r.date <= WeekEnd(clock, i) }
      weekCalories == OrZero(SumField(weekSummaries, "totalCalories"))
      weekDays == Cardinality(weekSummaries)
  IN  [ week |-> i + 1,
        totalCalories |-> weekCalories,
        averageCalories |-> Average(weekCalories, weekDays),
        daysTracked |-> weekDays ]

\* The value getMonthlyAnalytics returns for the fetched summaries and the
\* rows its aggregate query sees.
MonthlyAnalytics(u, summaries, aggregated, goals) ==
  LET totals == SummaryTotals(aggregated)
      daysTracked == Cardinality(summaries)
  IN  [ userId |-> u,
        dailyCalorieGoal |-> GoalOrDefault(FindUser(goals, u)),
        averageCalories |-> Average(totals.totalCalories, daysTracked),
        totals |-> totals,
        daysTracked |-> daysTracked,
        weeklyTrends |-> [ w \in 1..4 |-> WeekTrend(summaries, w - 1) ],
        summaries |-> summaries ]

\* `new Date(endDate.getFullYear(), endDate.getMonth() + 1, 0).getDate()`
DaysInMonth(m) == m.days

\* The monthly endpoint's consistencyScore.
MonthlyConsistency(daysTracked, m) ==
  RoundedRatio(daysTracked, DaysInMonth(m), 100).value

\* Mutant of OverviewConsistency: the month's true length is the divisor.
OverviewConsistencyByMonth(daysTracked, m) ==
  RoundedRatio(daysTracked, DaysInMonth(m), 100).value

\* The overview's consistencyScore: `Math.round((monthly.daysTracked / 30) * 100)`.
OverviewConsistency(daysTracked, m) == RoundedRatio(daysTracked, 30, 100).value

\* getMonthlyAnalytics, first await: findMany of the month's summaries and the
\* user's goal.
GetMonthlyAnalytics_Fetch(u) ==
  /\ report = NoReport
  /\ report' = [ kind |-> "monthly_fetched", userId |-> u,
                  summaries |-> SummariesIn(dailySummary, u, StartOfMonth, EndOfMonth) ]
  /\ UNCHANGED << db, pc, req, locals, result, started, crashed, profile, clock,
                  gemini >>

\* getMonthlyAnalytics, second await (the aggregate query), and the
\* controller's consistency score and days in month.
GetMonthlyAnalytics_Aggregate ==
  /\ report.kind = "monthly_fetched"
  /\ LET monthly == MonthlyAnalytics(report.userId, report.summaries,
                       SummariesIn(dailySummary, report.userId, StartOfMonth, EndOfMonth),
                       dailyCalorieGoal)
     IN  report' = [ kind |-> "monthly", userId |-> report.userId,
                     analytics |-> monthly,
                     consistencyScore |-> MonthlyConsistency(monthly.daysTracked, clock),
                     daysInMonth |-> DaysInMonth(clock) ]
  /\ UNCHANGED << db, pc, req, locals, result, started, crashed, profile, clock,
                  gemini >>

\* GET /api/analytics/overview: the three reports on the store as it is (no
\* request writes meanwhile) and the values put together from them.
GetProgressOverview(u) ==
  /\ report = NoReport
  /\ LET daily == DailyAnalytics(dailySummary, dailyCalorieGoal, u, clock.today * MsPerDay)
         week == SummariesIn(dailySummary, u, StartOfWeek, EndOfWeek)
         month == SummariesIn(dailySummary, u, StartOfMonth, EndOfMonth)
         monthly == MonthlyAnalytics(u, month, month, dailyCalorieGoal)
     IN  report' =
           [ kind |-> "overview", userId |-> u,
             today |-> [ consumed |-> daily.consumed,
                         goal |-> GoalOrDefault(FindUser(dailyCalorieGoal, u)),
                         remaining |-> daily.remaining,
                         percentConsumed |-> daily.percentConsumed,
                         mealsCount |-> daily.mealsCount ],
             thisWeek |-> [ averageCalories |->
                              Average(SummaryTotals(week).totalCalories, Cardinality(week)),
                            totalMeals |-> SummaryTotals(week).mealsCount,
                            daysTracked |-> Cardinality(week) ],
             thisMonth |-> [ averageCalories |-> monthly.averageCalories,
                             totalMeals |-> monthly.totals.mealsCount,
                             daysTracked |-> monthly.daysTracked,
                             consistencyScore |->
                               OverviewConsistency(monthly.daysTracked, clock) ],
             trends |-> monthly.weeklyTrends ]
  /\ UNCHANGED << db, pc, req, locals, result, started, crashed, profile, clock,
                  gemini >>

\* GET /api/users/stats: the three reads of the Promise.all (memberSinceDays,
\* taken from the account's creation time, is left out).
GetUserStats(u) ==
  /\ report = NoReport
  /\ report' = [ kind |-> "stats", userId |-> u,
                  totalMeals |-> Cardinality({ m \in meals : m.userId = u }),
                  daysTracked |-> Cardinality({ r \in dailySummary : r.userId = u }),
                  dailyCalorieGoal |-> dailyCalorieGoal[u],
                  currentBMI |-> profile[u].bmi ]
  /\ UNCHANGED << db, pc, req, locals, result, started, crashed, profile, clock,
                  gemini >>

\* The stores the analytics are asked on: user u1 has logged one meal on each
\* day of `days` (and deleted that of day 1), each followed by its recompute.
InitAnalytics ==
  /\ clock \in Months
  /\ gemini = OneKey
  /\ dailyCalorieGoal \in [Users -> AnalyticsGoals]
  /\ dailyCalorieGoal["u2"] = NULL
  /\ \E days \in SUBSET TrackedDays :
       /\ meals = { [id |-> k + 1, userId |-> "u1", mealDate |-> MonthDay(clock, k),
                     totalCalories |-> CaloriesOn(k), protein |-> k, carbs |-> NULL,
                     fats |-> NULL] : k \in days \ {1} }
       /\ dailySummary =
            { SummaryRow("u1", MonthDay(clock, k),
                SummaryData(AggregateMeals(meals, "u1", MonthDay(clock, k),
                                           DayEnd(MonthDay(clock, k))),
                            FindUser(dailyCalorieGoal, "u1"))) : k \in days }
  /\ foodItems = {}
  /\ notifications = {}
  /\ nextMealId = 33
  /\ nextNotificationId = 1
  /\ pc = [p \in Procs |-> "idle"]
  /\ req = [p \in Procs |-> NoReq]
  /\ existingMeal = [p \in Procs |-> NotRead]
  /\ aggregation = [p \in Procs |-> NotRead]
  /\ user = [p \in Procs |-> NotRead]
  /\ tx = [p \in Procs |-> NoTx]
  /\ result = [p \in Procs |-> NoResult]
  /\ started = 0
  /\ crashed = {}
  /\ profile = [u \in Users |-> Registered]
  /\ report = NoReport

\* ------------------------------------------------------------ specifications

AllIdle == \A q \in Procs : pc[q] = "idle"

\* One more await of a request that is under way, resolving.
Await(p) ==
  \/ UpdateDailySummary_Aggregate(p)
  \/ UpdateDailySummary_FindUser(p)
  \/ UpdateDailySummary_Upsert(p)
  \/ CreateMeal_Notify(p)
  \/ CreateMeal_NotifyFails(p)
  \/ UpdateMeal_TxUpdate(p)
  \/ UpdateMeal_TxDeleteMany(p)
  \/ UpdateMeal_TxCreateMany(p)
  \/ UpdateMeal_TxCommit(p)
  \/ UpdateMeal_TxFails(p)
  \/ DeleteMeal_GetMealById(p)
  \/ DeleteMeal_Delete(p)
  \/ DeleteMeal_DeleteFails(p)
  \/ Return(p)

Step(p) == Await(p) /\ UNCHANGED << started, crashed, aside >>

\* Requests run one at a time: a request is accepted when none is under way.
Next ==
  \/ AllIdle /\ CreateMeal("p1", SeqInputs)
  \/ AllIdle /\ UpdateMeal("p1", SeqInputs)
  \/ AllIdle /\ DeleteMeal("p1", SeqInputs)
  \/ \E u \in Users : AllIdle /\ UpdateProfile(u)
  \/ \E p \in Procs : Step(p)

Spec == Init /\ [][Next]_vars

\* Requests overlap: a request is accepted whenever a process is free.
NextConc ==
  \/ \E p \in Procs : CreateMeal(p, ConcInputs)
  \/ \E p \in Procs : UpdateMeal(p, ConcInputs)
  \/ \E p \in Procs : DeleteMeal(p, ConcInputs)
  \/ \E u \in ConcInputs.users : UpdateProfile(u)
  \/ \E p \in Procs : Step(p)

SpecConc == Init /\ [][NextConc]_vars

\* Requests run one at a time, and an await of updateDailySummary may reject.
NextCrash ==
  \/ AllIdle /\ CreateMeal("p1", CrashInputs)
  \/ AllIdle /\ UpdateMeal("p1", CrashInputs)
  \/ AllIdle /\ DeleteMeal("p1", CrashInputs)
  \/ \E p \in Procs : Step(p)
  \/ \E p \in Procs : UpdateDailySummary_Fails(p) /\ UNCHANGED << started, aside >>

SpecCrash == Init /\ [][NextCrash]_vars

\* Profile requests, one at a time.
NextProfile ==
  \/ \E u \in Users : CompleteOnboarding(u)
  \/ \E u \in Users : UpdateProfileFields(u)

SpecProfile == Init /\ [][NextProfile]_vars

\* Meal and notification requests of two users, one at a time, each free to
\* name the other's ids.
NextOwners ==
  \/ AllIdle /\ CreateMeal("p1", OwnerInputs)
  \/ AllIdle /\ UpdateMeal("p1", OwnerInputs)
  \/ AllIdle /\ DeleteMeal("p1", OwnerInputs)
  \/ AllIdle /\ MarkAsRead("p1")
  \/ AllIdle /\ MarkAllAsRead("p1")
  \/ AllIdle /\ DeleteNotification("p1")
  \/ \E p \in Procs : Step(p)

SpecOwners == Init /\ [][NextOwners]_vars

\* Meals are logged, moved and deleted, one request at a time; then one
\* report that counts the days tracked is asked for.
NextTracked ==
  \/ AllIdle /\ report = NoReport /\ CreateMeal("p1", TrackedInputs)
  \/ AllIdle /\ report = NoReport /\ UpdateMeal("p1", TrackedInputs)
  \/ AllIdle /\ report = NoReport /\ DeleteMeal("p1", TrackedInputs)
  \/ \E p \in Procs : Step(p)
  \/ \E u \in TrackedInputs.users : AllIdle /\ GetWeeklyAnalytics_Fetch(u)
  \/ GetWeeklyAnalytics_Aggregate
  \/ \E u \in TrackedInputs.users : AllIdle /\ GetMonthlyAnalytics_Fetch(u)
  \/ GetMonthlyAnalytics_Aggregate
  \/ \E u \in TrackedInputs.users : AllIdle /\ GetUserStats(u)

SpecTracked == Init /\ [][NextTracked]_vars

\* Onboarding requests that may overlap, among profile updates.
NextOnboarding ==
  \/ \E p \in Procs : CompleteOnboarding_Check(p, OverlapBodies)
  \/ \E p \in Procs : CompleteOnboarding_Update(p)
  \/ \E u \in Users : UpdateProfileFields(u)
  \/ \E p \in Procs : Answered(p)

SpecOnboarding == Init /\ [][NextOnboarding]_vars

\* Token registrations that may overlap.
NextFcm ==
  \/ \E p \in Procs : UpdateFcmToken(p)
  \/ \E p \in Procs : UpdateFcmToken_Clear(p)
  \/ \E p \in Procs : UpdateFcmToken_Assign(p)
  \/ \E p \in Procs : UpdateFcmToken_Greet(p)
  \/ \E p \in Procs : Answered(p)

SpecFcm == Init /\ [][NextFcm]_vars

\* Analysis calls that may overlap, on a pool of one to MaxKeys keys.
InitGemini ==
  /\ meals = {}
  /\ foodItems = {}
  /\ dailySummary = {}
  /\ notifications = {}
  /\ dailyCalorieGoal = [u \in Users |-> NULL]
  /\ nextMealId = 1
  /\ nextNotificationId = 1
  /\ pc = [p \in Procs |-> "idle"]
  /\ req = [p \in Procs |-> NoReq]
  /\ existingMeal = [p \in Procs |-> NotRead]
  /\ aggregation = [p \in Procs |-> NotRead]
  /\ user = [p \in Procs |-> NotRead]
  /\ tx = [p \in Procs |-> NoTx]
  /\ result = [p \in Procs |-> NoResult]
  /\ started = 0
  /\ crashed = {}
  /\ profile = [u \in Users |-> Registered]
  /\ clock = CHOOSE m \in Months : m.days = 30
  /\ report = NoReport
  /\ gemini \in [keys : 1..MaxKeys, currentKeyIndex : {0}]

NextGemini ==
  \/ \E p \in Procs : Analyze(p)
  \/ \E p \in Procs : Analyze_Succeeds(p)
  \/ \E p \in Procs : Analyze_Fails(p)
  \/ \E p \in Procs : Analyze_RateLimited(p)
  \/ \E p \in Procs : Answered(p)

SpecGemini == InitGemini /\ [][NextGemini]_vars

\* One analytics call on a store of summaries.
NextAnalytics ==
  \/ \E u \in Users : GetDailyAnalytics(u)
  \/ \E u \in Users : GetMonthlyAnalytics_Fetch(u)
  \/ GetMonthlyAnalytics_Aggregate
  \/ \E u \in Users : GetProgressOverview(u)

SpecAnalytics == InitAnalytics /\ [][NextAnalytics]_vars

\* A weekly report is built while meal requests of the same user go on.
NextWeekly ==
  \/ AllIdle /\ CreateMeal("p1", ConcInputs)
  \/ AllIdle /\ UpdateMeal("p1", ConcInputs)
  \/ AllIdle /\ DeleteMeal("p1", ConcInputs)
  \/ \E p \in Procs : Step(p)
  \/ \E u \in ConcInputs.users : GetWeeklyAnalytics_Fetch(u)
  \/ GetWeeklyAnalytics_Aggregate

SpecWeekly == Init /\ [][NextWeekly]_vars

\* The calls of calculateDailyCalorieGoal: a rounded BMR, one of the five
\* activity multipliers (in thousandths) and a goal, "" standing for a goal
\* that is missing or null.
ActivityLevels == {1200, 1375, 1550, 1725, 1900}

GoalInputs == {"lose", "maintain", "gain", NoString}

InitGoal ==
  /\ meals = {}
  /\ foodItems = {}
  /\ dailySummary = {}
  /\ notifications = {}
  /\ dailyCalorieGoal = [u \in Users |-> NULL]
  /\ nextMealId = 1
  /\ nextNotificationId = 1
  /\ pc = [p \in Procs |-> "idle"]
  /\ req = [p \in Procs |-> NoReq]
  /\ existingMeal = [p \in Procs |-> NotRead]
  /\ aggregation = [p \in Procs |-> NotRead]
  /\ user = [p \in Procs |-> NotRead]
  /\ tx = [p \in Procs |-> NoTx]
  /\ result = [p \in Procs |-> NoResult]
  /\ started = 0
  /\ crashed = {}
  /\ profile = [u \in Users |-> Registered]
  /\ clock = CHOOSE m \in Months : m.days = 30
  /\ gemini = OneKey
  /\ report \in [ kind : {"goal_call"}, bmr : 1..MaxBmr,
                   activityLevel : ActivityLevels, goal : GoalInputs ]

\* calculateDailyCalorieGoal(bmr, activityLevel, goal) returns.
CalculateGoal ==
  /\ report.kind = "goal_call"
  /\ report' = [ kind |-> "goal", bmr |-> report.bmr,
                  activityLevel |-> report.activityLevel, goal |-> report.goal,
                  dailyCalorieGoal |->
                    CalculateDailyCalorieGoal(report.bmr, report.activityLevel,
                                              report.goal) ]
  /\ UNCHANGED << db, pc, req, locals, result, started, crashed, profile, clock,
                  gemini >>

NextGoal == CalculateGoal

SpecGoal == InitGoal /\ [][NextGoal]_vars

\* The calls of calculateHealthMetrics: each number missing, zero, negative,
\* or at an end of or inside the range the validators accept; a gender that
\* is missing, valid in either case, or neither.
MetricsInputs ==
  [ kind : {"metrics_call"},
    weight : {NULL, 0, -5, 20, 70, 500},
    height : {NULL, 0, -5, 50, 175, 300},
    age : {NULL, 0, -5, 13, 30, 120},
    gender : {NoString, "male", "female", "Male", "FEMALE", "other"},
    activityLevel : {NULL, 0, 1200, 1550, 1900},
    goal : GoalInputs ]

InitMetrics ==
  /\ meals = {}
  /\ foodItems = {}
  /\ dailySummary = {}
  /\ notifications = {}
  /\ dailyCalorieGoal = [u \in Users |-> NULL]
  /\ nextMealId = 1
  /\ nextNotificationId = 1
  /\ pc = [p \in Procs |-> "idle"]
  /\ req = [p \in Procs |-> NoReq]
  /\ existingMeal = [p \in Procs |-> NotRead]
  /\ aggregation = [p \in Procs |-> NotRead]
  /\ user = [p \in Procs |-> NotRead]
  /\ tx = [p \in Procs |-> NoTx]
  /\ result = [p \in Procs |-> NoResult]
  /\ started = 0
  /\ crashed = {}
  /\ profile = [u \in Users |-> Registered]
  /\ clock = CHOOSE m \in Months : m.days = 30
  /\ gemini = OneKey
  /\ report \in MetricsInputs

\* calculateHealthMetrics(userData) returns.
CalculateMetrics ==
  /\ report.kind = "metrics_call"
  /\ LET metrics == CalculateHealthMetrics(report)
     IN  report' = [ kind |-> "metrics", weight |-> report.weight,
                     height |-> report.height, age |-> report.age,
                     gender |-> report.gender,
                     activityLevel |-> report.activityLevel, goal |-> report.goal,
                     bmi |-> metrics.bmi, bmr |-> metrics.bmr,
                     dailyCalorieGoal |-> metrics.dailyCalorieGoal ]
  /\ UNCHANGED << db, pc, req, locals, result, started, crashed, profile, clock,
                  gemini >>

NextMetrics == CalculateMetrics

SpecMetrics == InitMetrics /\ [][NextMetrics]_vars

\* ---------------------------------------------------------------- properties

\* The calendar days a meal can be dated in, by their first millisecond.
DayStarts == { DayStart(d) : d \in MealDates }

\* The meals of user u whose mealDate falls in the day that starts at ds.
MealsIn(u, ds) == { m \in meals : m.userId = u /\ DayStart(m.mealDate) = ds }

\* The sum of column f over a set of meals, an unset value counting as 0.
RECURSIVE Total(_, _)
Total(rows, f) ==
  IF rows = {} THEN 0
  ELSE LET r == CHOOSE x \in rows : TRUE
       IN  (IF r[f] = NULL THEN 0 ELSE r[f]) + Total(rows \ {r}, f)

\* Summary row s carries the sums and the count of its day's meals.
TotalsMatch(s) ==
  LET rows == MealsIn(s.userId, s.date)
  IN  /\ s.totalCalories = Total(rows, "totalCalories")
      /\ s.totalProtein = Total(rows, "protein")
      /\ s.totalCarbs = Total(rows, "carbs")
      /\ s.totalFats = Total(rows, "fats")
      /\ s.mealsCount = Cardinality(rows)

\* The day of (u, ds) has a summary row, and its rows carry the day's totals.
Summarised(u, ds) ==
  /\ SummaryRows(dailySummary, u, ds) /= {}
  /\ \A s \in SummaryRows(dailySummary, u, ds) : TotalsMatch(s)

\* The date a request's meal had when the request came in.
OriginalDate(p) ==
  IF req[p].kind = "createMeal" THEN req[p].mealDate ELSE existingMeal[p].meal.mealDate

Returned(p, kind) ==
  pc[p] = "done" /\ result[p].status = "ok" /\ req[p].kind = kind

\* C1: whenever no meal request is under way, every (user, day) with a meal
\* has a summary row and every summary row carries the sums and the count of
\* its day's meals.
C1_SummariesMatchMeals ==
  AllIdle =>
    /\ \A u \in Users, ds \in DayStarts : MealsIn(u, ds) /= {} => Summarised(u, ds)
    /\ \A s \in dailySummary : TotalsMatch(s)

\* C2: when createMeal, updateMeal or deleteMeal has returned successfully, the
\* summary row of (userId, day of the date the meal had when the request came
\* in) exists and carries the totals of the meals now dated in that day.
C2_RecomputedOnReturn ==
  \A p \in Procs :
    (\E k \in {"createMeal", "updateMeal", "deleteMeal"} : Returned(p, k))
      => Summarised(req[p].userId, DayStart(OriginalDate(p)))

\* C2 witness: a deleteMeal has returned and its day still holds a meal with
\* calories, summed into the row.
C2_Witness ==
  \E p \in Procs :
    /\ Returned(p, "deleteMeal")
    /\ \E s \in SummaryRows(dailySummary, req[p].userId, DayStart(OriginalDate(p))) :
         s.mealsCount = 1 /\ s.totalCalories > 0

\* The request of p is an updateMeal that found its meal.
Updating(p) == req[p].kind = "updateMeal" /\ existingMeal[p].found

StoredMeal(id) == { m \in meals : m.id = id }

\* C3: after an updateMeal whose body has foodItems has returned, the meal's
\* food items are exactly the items of the body, one row per element.
C3_FoodItemsReplaced ==
  \A p \in Procs :
    (Returned(p, "updateMeal") /\ "foodItems" \in DOMAIN req[p].patch) =>
      LET items == req[p].patch.foodItems
          rows == ItemsOf(foodItems, req[p].mealId)
      IN  /\ Cardinality(rows) = Len(items)
          /\ \A i \in 1..Len(items) :
               \E r \in rows : r.idx = i /\ r.foodName = items[i]

\* C3 witness: a meal created with [A, B] was updated with [C].
C3_Witness ==
  \E p \in Procs :
    /\ Returned(p, "updateMeal")
    /\ "foodItems" \in DOMAIN req[p].patch
    /\ req[p].patch.foodItems = <<"C">>
    /\ { r.foodName : r \in existingMeal[p].foodItems } = {"A", "B"}

\* C4: while an updateMeal is under way the stored meal and its food items
\* are either both as they were when the request came in or both as the
\* body asks; they are as they were until the transaction commits, and after
\* a failed transaction.
C4_TransactionAllOrNothing ==
  \A p \in Procs :
    Updating(p) =>
      LET id == req[p].mealId
          old == existingMeal[p]
          asBefore == /\ StoredMeal(id) = {old.meal}
                      /\ ItemsOf(foodItems, id) = old.foodItems
          asAsked == /\ StoredMeal(id) = {ApplyPatch(old.meal, req[p].patch)}
                     /\ ItemsOf(foodItems, id) =
                          IF "foodItems" \in DOMAIN req[p].patch
                            THEN ItemRows(id, req[p].patch.foodItems)
                            ELSE old.foodItems
      IN  /\ asBefore \/ asAsked
          /\ InTx(p) => asBefore
          /\ (pc[p] = "done" /\ result[p].status = "error"
                /\ result[p].at \in TxStages) => asBefore

\* C4 witness: the transaction failed after the field update, the deleteMany
\* and the createMany had run.
C4_Witness ==
  \E p \in Procs :
    /\ Updating(p)
    /\ pc[p] = "done"
    /\ result[p] = [status |-> "error", at |-> "tx_commit"]
    /\ "totalCalories" \in DOMAIN req[p].patch
    /\ "foodItems" \in DOMAIN req[p].patch
    /\ req[p].patch.foodItems /= <<>>
    /\ existingMeal[p].foodItems /= {}

MovesDay(p) ==
  /\ Updating(p)
  /\ "mealDate" \in DOMAIN req[p].patch
  /\ DayStart(req[p].patch.mealDate) /= DayStart(existingMeal[p].meal.mealDate)

\* C6: no step of an updateMeal that moves its meal to another day creates or
\* modifies the summary row of the new day.
C6_NewDayNotRecomputed ==
  [][ \A p \in Procs :
        MovesDay(p) =>
          SummaryRows(dailySummary', req[p].userId, DayStart(req[p].patch.mealDate))
            = SummaryRows(dailySummary, req[p].userId, DayStart(req[p].patch.mealDate))
    ]_vars

\* C6 witness: such an updateMeal has returned; the new day holds the meal and
\* a summary row that does not count it.
C6_Witness ==
  \E p \in Procs :
    /\ Returned(p, "updateMeal")
    /\ MovesDay(p)
    /\ MealsIn(req[p].userId, DayStart(req[p].patch.mealDate)) /= {}
    /\ \E s \in SummaryRows(dailySummary, req[p].userId,
                            DayStart(req[p].patch.mealDate)) : ~TotalsMatch(s)

IsZeroed(s) ==
  /\ s.totalCalories = 0 /\ s.totalProtein = 0 /\ s.totalCarbs = 0
  /\ s.totalFats = 0 /\ s.mealsCount = 0

\* A deleteMeal of p has returned and left its day without meals.
DeletedLastMeal(p) ==
  /\ Returned(p, "deleteMeal")
  /\ existingMeal[p].found
  /\ MealsIn(req[p].userId, DayStart(OriginalDate(p))) = {}

\* C7: a summary row that exists exists in every later state, and deleting
\* the only meal of a day leaves the day's row in place with all totals 0.
C7_SummaryRowNeverRemoved ==
  /\ [][ \A s \in dailySummary :
           SummaryRows(dailySummary', s.userId, s.date) /= {} ]_vars
  /\ [](\A p \in Procs :
          DeletedLastMeal(p) =>
            /\ SummaryRows(dailySummary, req[p].userId, DayStart(OriginalDate(p))) /= {}
            /\ \A s \in SummaryRows(dailySummary, req[p].userId,
                                    DayStart(OriginalDate(p))) : IsZeroed(s))

\* C7 witness: the only meal of a day, one with calories, was deleted.
C7_Witness ==
  \E p \in Procs :
    /\ DeletedLastMeal(p)
    /\ existingMeal[p].meal.totalCalories > 0
    /\ \E s \in dailySummary :
         s.userId = req[p].userId /\ s.date = DayStart(OriginalDate(p)) /\ IsZeroed(s)

\* The request of p has read its aggregate / has written its summary row.
HasAggregated(p) == aggregation[p].found
HasUpserted(p) == HasAggregated(p) /\ pc[p] \in {"notify", "done"}

SameDay(p, q) ==
  /\ SummaryUser(p) = SummaryUser(q)
  /\ DayStart(SummaryDate(p)) = DayStart(SummaryDate(q))

\* C8: there is at most one summary row per (userId, day start), also when
\* recomputes overlap.
C8_OneRowPerUserDay ==
  \A s1, s2 \in dailySummary :
    (s1.userId = s2.userId /\ s1.date = s2.date) => s1 = s2

\* C8 witness: q wrote the row of a day between the aggregate and the upsert
\* of p for the same day (p counted one meal, q the two of them).
C8_Witness ==
  \E p, q \in Procs :
    /\ p /= q
    /\ req[p].kind = "createMeal" /\ req[q].kind = "createMeal"
    /\ pc[p] = "uds_upsert"
    /\ HasUpserted(q)
    /\ SameDay(p, q)
    /\ aggregation[p].agg.count = 1
    /\ aggregation[q].agg.count = 2
    /\ Cardinality(SummaryRows(dailySummary, SummaryUser(p),
                               DayStart(SummaryDate(p)))) = 1

\* The step in which the upsert of request p resolves.
Upserts(p) ==
  /\ pc[p] = "uds_upsert"
  /\ pc'[p] /= "uds_upsert"
  /\ result'[p].status /= "error"

\* C9: updateDailySummary run twice in a row on the same meals and goal leaves
\* the summary table as the first run left it; and the upsert of a request
\* that nothing interleaves with writes what one such run writes.
C9_RecomputeIdempotent ==
  /\ [](\A u \in Users, d \in MealDates :
          LET once == UpdateDailySummary(dailySummary, meals, dailyCalorieGoal, u, d)
          IN  UpdateDailySummary(once, meals, dailyCalorieGoal, u, d) = once)
  /\ [][ \A p \in Procs :
           Upserts(p) =>
             dailySummary' = UpdateDailySummary(dailySummary, meals, dailyCalorieGoal,
                                                SummaryUser(p), SummaryDate(p)) ]_vars

\* C9 witness: a day with meals has a row that a recompute would change.
C9_Witness ==
  \E u \in Users, d \in MealDates :
    /\ MealsIn(u, DayStart(d)) /= {}
    /\ SummaryRows(dailySummary, u, DayStart(d)) /= {}
    /\ UpdateDailySummary(dailySummary, meals, dailyCalorieGoal, u, d) /= dailySummary
    /\ \E p \in Procs : pc[p] = "uds_upsert" /\ SummaryUser(p) = u
                        /\ DayStart(SummaryDate(p)) = DayStart(d)

\* C10: the upsert of a recompute writes the totals that the recompute
\* aggregated at its earlier await, whatever the meals are by then.
C10_UpsertWritesEarlierAggregate ==
  [][ \A p \in Procs :
        Upserts(p) =>
          \A s \in SummaryRows(dailySummary', SummaryUser(p), DayStart(SummaryDate(p))) :
            /\ s.totalCalories = OrZero(aggregation[p].agg.sumCalories)
            /\ s.totalProtein = OrZero(aggregation[p].agg.sumProtein)
            /\ s.totalCarbs = OrZero(aggregation[p].agg.sumCarbs)
            /\ s.totalFats = OrZero(aggregation[p].agg.sumFats)
            /\ s.mealsCount = aggregation[p].agg.count
    ]_vars

\* C10 witness (the lost update): two createMeal calls for the same user and
\* day have both returned and the day's row does not carry the day's totals.
C10_Witness ==
  \E p, q \in Procs :
    /\ p /= q
    /\ Returned(p, "createMeal") /\ Returned(q, "createMeal")
    /\ SameDay(p, q)
    /\ ~Summarised(SummaryUser(p), DayStart(SummaryDate(p)))

\* The request of p recomputes the day of key k and its upsert resolves.
RepairsDay(p, k) ==
  /\ Upserts(p)
  /\ SummaryKey(p) = k

C12_NotificationNeverFailsCreateMeal ==
  \A p \in Procs :
    (req[p].kind = "createMeal" /\ pc[p] = "done" /\ result[p].at = "notify")
      => result[p].status = "ok"

\* C13: every food item references a meal that exists; the food items of a
\* meal are gone once a deleteMeal for it has written.
C13_FoodItemsReferenceMeals ==
  /\ \A i \in foodItems : \E m \in meals : m.id = i.mealId
  /\ \A p \in Procs :
       Returned(p, "deleteMeal") /\ existingMeal[p].found
         => ItemsOf(foodItems, req[p].mealId) = {}

\* C13 witness: a meal with food items was deleted while another meal keeps
\* its own.
C13_Witness ==
  \E p \in Procs :
    /\ Returned(p, "deleteMeal")
    /\ existingMeal[p].found
    /\ existingMeal[p].foodItems /= {}
    /\ foodItems /= {}

\* The five inputs of the metrics are all stored for user u.
MetricsInputsSet(u) ==
  /\ profile[u].weight /= NULL /\ profile[u].height /= NULL
  /\ profile[u].age /= NULL /\ profile[u].gender /= NoString
  /\ profile[u].activityLevel /= NULL

\* C14: whenever weight, height, age, gender and activityLevel of a user are
\* all stored, the stored bmi and dailyCalorieGoal are those that
\* calculateHealthMetrics gives for the stored columns.
C14_DerivedFieldsMatchMetrics ==
  \A u \in Users :
    MetricsInputsSet(u) =>
      /\ profile[u].bmi = CalculateHealthMetrics(profile[u]).bmi
      /\ dailyCalorieGoal[u] = CalculateHealthMetrics(profile[u]).dailyCalorieGoal

\* C14 witness: a user who onboarded with one goal and weight has changed
\* both by updateProfile and has a calorie goal.
C14_Witness ==
  \E u \in Users :
    /\ profile[u].isOnboarded
    /\ profile[u].goal = "gain"
    /\ profile[u].weight = 90
    /\ dailyCalorieGoal[u] /= NULL

\* C15: the goal dailyAnalytics divides by is never 0 and percentConsumed is
\* a finite integer, whatever the stored goal and the summary are.
C15_PercentConsumedFinite ==
  report.kind = "daily" =>
    /\ report.calorieGoal /= 0
    /\ report.percentConsumed.finite
    /\ report.percentConsumed.value \in Int

\* C15 witness: the report of a user whose stored goal is 0, on a day with
\* calories logged.
C15_Witness ==
  /\ report.kind = "daily"
  /\ dailyCalorieGoal[report.userId] = 0
  /\ report.consumed > 0
  /\ report.percentConsumed.value > 0

\* The stored goal of the report's user, 2000 standing in for none or 0, and
\* the summary rows of the report's user and day.
ReportGoal ==
  IF dailyCalorieGoal[report.userId] \in {NULL, 0}
    THEN DEFAULT_CALORIE_GOAL
    ELSE dailyCalorieGoal[report.userId]

ReportRows == SummaryRows(dailySummary, report.userId, report.date)

\* C16: dailyAnalytics returns the stored calories of the day as consumed and
\* goal - consumed as remaining, below 0 when the goal is exceeded; for a day
\* without a summary row or with a zeroed one it returns consumed 0, remaining
\* = calorieGoal, percentConsumed 0 and mealsCount 0.
C16_DailyAnalyticsValues ==
  report.kind = "daily" =>
    /\ report.calorieGoal = ReportGoal
    /\ \A r \in ReportRows :
         /\ report.consumed = r.totalCalories
         /\ report.remaining = ReportGoal - r.totalCalories
         /\ report.mealsCount = r.mealsCount
    /\ (ReportRows = {} \/ \A r \in ReportRows : IsZeroed(r)) =>
         /\ report.consumed = 0
         /\ report.remaining = report.calorieGoal
         /\ report.percentConsumed = [finite |-> TRUE, value |-> 0]
         /\ report.mealsCount = 0

\* C16 witness: the report of a day whose calories exceed the goal.
C16_Witness ==
  /\ report.kind = "daily"
  /\ report.calorieGoal = 1800
  /\ report.consumed = 2500
  /\ report.remaining = -700

\* C17: the totals of a weekly report are the field-wise sums of the rows of
\* its dailyBreakdown, daysTracked is the number of those rows, and
\* averageCalories is round(totals.totalCalories / daysTracked), or 0 without
\* rows, also when a meal mutation commits while the report is built.
C17_WeeklyTotalsMatchBreakdown ==
  report.kind = "weekly" =>
    /\ report.totals.totalCalories = Total(report.dailyBreakdown, "totalCalories")
    /\ report.totals.totalProtein = Total(report.dailyBreakdown, "totalProtein")
    /\ report.totals.totalCarbs = Total(report.dailyBreakdown, "totalCarbs")
    /\ report.totals.totalFats = Total(report.dailyBreakdown, "totalFats")
    /\ report.totals.mealsCount = Total(report.dailyBreakdown, "mealsCount")
    /\ report.daysTracked = Cardinality(report.dailyBreakdown)
    /\ report.averageCalories =
         IF report.daysTracked = 0 THEN 0
         ELSE Round(report.totals.totalCalories, report.daysTracked)

\* The day of the current month a summary row is dated on.
DayOfMonth(r) == (r.date \div MsPerDay) - clock.startDay + 1

\* The fetched summaries of a monthly report dated on days lo..hi.
FetchedOn(lo, hi) ==
  { r \in report.analytics.summaries : DayOfMonth(r) >= lo /\ DayOfMonth(r) <= hi }

\* C18: weeklyTrends has four entries; entry i counts and sums exactly the
\* fetched summaries of days 7(i-1)+1 .. 7i, so the four entries together
\* count each summary of days 1-28 once and those of days 29-31 never, while
\* daysTracked and the totals of the month count every fetched summary.
C18_FourFixedWindows ==
  report.kind = "monthly" =>
    LET trends == report.analytics.weeklyTrends
    IN  /\ DOMAIN trends = 1..4
        /\ \A i \in 1..4 :
             /\ trends[i].week = i
             /\ trends[i].daysTracked = Cardinality(FetchedOn(7 * (i - 1) + 1, 7 * i))
             /\ trends[i].totalCalories =
                  Total(FetchedOn(7 * (i - 1) + 1, 7 * i), "totalCalories")
        /\ trends[1].daysTracked + trends[2].daysTracked + trends[3].daysTracked
             + trends[4].daysTracked = Cardinality(FetchedOn(1, 28))
        /\ report.analytics.daysTracked = Cardinality(FetchedOn(1, 31))
        /\ report.analytics.totals.totalCalories = Total(FetchedOn(1, 31), "totalCalories")

\* C18 witness: a 31-day month with summaries on days 7, 8, 28, 29 and 31.
C18_Witness ==
  /\ report.kind = "monthly"
  /\ clock.days = 31
  /\ { DayOfMonth(r) : r \in report.analytics.summaries } = {7, 8, 28, 29, 31}
  /\ report.analytics.daysTracked = 5
  /\ report.analytics.weeklyTrends[4].daysTracked = 1

\* C19: the monthly endpoint's consistency score is round(daysTracked /
\* daysInMonth * 100) with the month's true number of days; the overview's
\* is round(daysTracked / 30 * 100) whatever the month's length.
C19_ConsistencyScores ==
  /\ report.kind = "monthly" =>
       /\ report.daysInMonth = clock.days
       /\ report.consistencyScore = Round(100 * report.analytics.daysTracked, clock.days)
  /\ report.kind = "overview" =>
       report.thisMonth.consistencyScore = Round(100 * report.thisMonth.daysTracked, 30)

\* C19 witness: an overview in a 28-day month with four days tracked, whose
\* score is 13 where the month's length would give 14.
C19_Witness ==
  /\ report.kind = "overview"
  /\ clock.days = 28
  /\ report.thisMonth.daysTracked = 4
  /\ report.thisMonth.consistencyScore = 13
  /\ Round(100 * 4, 28) = 14

\* C20: for every rounded bmr, each of the five activity multipliers and every
\* goal, calculateDailyCalorieGoal returns round(bmr * activityLevel), less
\* 400 for "lose", plus 500 for "gain", unchanged for any other goal and for
\* a missing one: adjusting before the rounding changes nothing.
C20_AdjustmentCommutesWithRounding ==
  report.kind = "goal" =>
    LET maintenance == Round(report.bmr * report.activityLevel, 1000)
    IN  /\ report.goal = "lose" => report.dailyCalorieGoal = maintenance - 400
        /\ report.goal = "gain" => report.dailyCalorieGoal = maintenance + 500
        /\ report.goal \notin {"lose", "gain"} => report.dailyCalorieGoal = maintenance

\* C20 witness: a product that ends in .5 (1524 * 1.375 = 2095.5) adjusted
\* for "lose".
C20_Witness ==
  /\ report.kind = "goal" /\ report.bmr = 1524 /\ report.activityLevel = 1375
  /\ report.goal = "lose" /\ report.dailyCalorieGoal = 1696

\* A numeric input that is missing or not above zero.
Unusable(x) == x = NULL \/ x <= 0

ExampleBMR(gender) ==
  /\ report.kind = "metrics"
  /\ report.weight = 70 /\ report.height = 175 /\ report.age = 30
  /\ report.gender = gender

\* C22 as stated: calculateBMR(70, 175, 30, "male") is 1701 and
\* calculateBMR(70, 175, 30, "female") is 1508.
C22_ExampleBMR_AsStated ==
  /\ ExampleBMR("male") => report.bmr = 1701
  /\ ExampleBMR("female") => report.bmr = 1508

\* C22, amended: calculateBMR(70, 175, 30, "male") is 1702, the rounded value
\* of 66.47 + 962.5 + 875.525 - 202.65 = 1701.845, and
\* calculateBMR(70, 175, 30, "female") is 1508.
C22_ExampleBMR ==
  /\ ExampleBMR("male") => report.bmr = 1702
  /\ ExampleBMR("female") => report.bmr = 1508

\* C22 witness: the male example has been computed.
C22_Witness == ExampleBMR("male") /\ report.bmr = 1702

\* The call calculateDailyCalorieGoal(1701, 1.55, goal) has returned.
ExampleGoal(goal) ==
  /\ report.kind = "goal"
  /\ report.bmr = 1701 /\ report.activityLevel = 1550
  /\ report.goal = goal

\* C23 as stated: calculateDailyCalorieGoal(1701, 1.55, goal) is 2636 for
\* "maintain", 2236 for "lose" and 3136 for "gain".
C23_ExampleGoal_AsStated ==
  /\ ExampleGoal("maintain") => report.dailyCalorieGoal = 2636
  /\ ExampleGoal("lose") => report.dailyCalorieGoal = 2236
  /\ ExampleGoal("gain") => report.dailyCalorieGoal = 3136

\* C23, amended: 1701 * 1.55 is 2636.55, so calculateDailyCalorieGoal(1701,
\* 1.55, goal) is 2637 for "maintain", 2237 for "lose" and 3137 for "gain".
C23_ExampleGoal ==
  /\ ExampleGoal("maintain") => report.dailyCalorieGoal = 2637
  /\ ExampleGoal("lose") => report.dailyCalorieGoal = 2237
  /\ ExampleGoal("gain") => report.dailyCalorieGoal = 3137

\* C23 witness: the "lose" example has been computed.
C23_Witness == ExampleGoal("lose") /\ report.dailyCalorieGoal = 2237

\* C24: an updateMeal whose patch has no foodItems key leaves the food items
\* of its meal as they were when it found the meal, at every step and when
\* it has returned, whatever meal fields the patch changes.
C24_UpdateWithoutItemsKeepsItems ==
  \A p \in Procs :
    ( /\ req[p].kind = "updateMeal"
      /\ existingMeal[p].found
      /\ "foodItems" \notin DOMAIN req[p].patch )
    => ItemsOf(foodItems, req[p].mealId) = existingMeal[p].foodItems

\* C24 witness: an update of totalCalories and carbs alone has returned, for
\* a meal that has food items, and the meal carries the new values.
C24_Witness ==
  \E p \in Procs :
    /\ Returned(p, "updateMeal")
    /\ "foodItems" \notin DOMAIN req[p].patch
    /\ "totalCalories" \in DOMAIN req[p].patch
    /\ existingMeal[p].foodItems /= {}
    /\ ItemsOf(foodItems, req[p].mealId) = existingMeal[p].foodItems
    /\ \E m \in meals :
         /\ m.id = req[p].mealId
         /\ m.totalCalories = req[p].patch.totalCalories
         /\ m.totalCalories /= existingMeal[p].meal.totalCalories

\* C25: whenever no updateFcmToken call is under way, no two users hold the
\* same token.
C25_FcmTokenUnique ==
  (\A p \in Procs : pc[p] \in {"idle", "done"}) =>
    \A u1, u2 \in Users :
      (u1 /= u2 /\ profile[u1].fcmToken /= NoString)
        => profile[u1].fcmToken /= profile[u2].fcmToken

\* A call of analyzeImage or analyzeTextDescription is under way or finished.
Analyzing(p) == req[p].kind \in {"analyzeImage", "analyzeTextDescription"}

C27_OnboardingAtMostOnce ==
  /\ [][ \A u \in Users : profile[u].isOnboarded => profile'[u].isOnboarded ]_vars
  /\ [][ \A p \in Procs :
          ( /\ pc[p] = "idle" /\ pc'[p] /= "idle"
            /\ req'[p].kind = "completeOnboarding"
            /\ profile[req'[p].userId].isOnboarded )
          => /\ pc'[p] = "done"
             /\ result'[p].status = "badrequest"
             /\ UNCHANGED << profile, dailyCalorieGoal >> ]_vars
  /\ [][ \A p \in Procs :
          ( /\ pc[p] = "onb_update" /\ pc'[p] = "done"
            /\ result'[p].status = "ok" )
          => ~profile[req[p].userId].isOnboarded ]_vars

\* The records user b owns: meals, their food items, summaries, notifications.
Owned(b) ==
  [ meals |-> { m \in meals : m.userId = b },
    foodItems |-> { i \in foodItems :
                     \E m \in meals : m.id = i.mealId /\ m.userId = b },
    dailySummary |-> { r \in dailySummary : r.userId = b },
    notifications |-> { n \in notifications : n.userId = b } ]

\* C28: no step of a meal or notification request made with userId a changes
\* a meal, food item, summary or notification owned by another user b,
\* whatever id the request names.
C28_OtherUsersDataUntouched ==
  [][ \A p \in Procs, b \in Users :
        LET comesIn == pc[p] = "idle" /\ pc'[p] /= "idle"
            goesOn == pc[p] /= "idle" /\ pc'[p] /= pc[p]
        IN  /\ (comesIn /\ req'[p].userId /= b) => Owned(b)' = Owned(b)
            /\ (goesOn /\ req[p].userId /= b) => Owned(b)' = Owned(b)
    ]_vars

\* C28 witness: a user has asked to mark as read a notification of another
\* user, which is still unread.
C28_Witness ==
  \E p \in Procs :
    /\ pc[p] = "done"
    /\ req[p].kind = "markAsRead"
    /\ \E n \in notifications :
         n.id = req[p].notificationId /\ n.userId /= req[p].userId /\ ~n.isRead

\* The days between start and end on which user u has at least one meal.
DaysWithMeals(u, start, end) ==
  { DayStart(m.mealDate) :
      m \in { x \in meals : x.userId = u /\ x.mealDate >= start /\ x.mealDate <= end } }

\* C29: daysTracked of the weekly report, the monthly report and the user
\* statistics is the number of summary rows, zeroed rows included, it is at
\* least the number of days in range that have a meal, and averageCalories
\* is the total divided by it.
C29_DaysTrackedCountsRows ==
  /\ report.kind = "weekly" =>
       /\ report.daysTracked =
            Cardinality(SummariesIn(dailySummary, report.userId, StartOfWeek, EndOfWeek))
       /\ report.daysTracked >=
            Cardinality(DaysWithMeals(report.userId, StartOfWeek, EndOfWeek))
       /\ report.averageCalories =
            Average(report.totals.totalCalories, report.daysTracked)
  /\ report.kind = "monthly" =>
       /\ report.analytics.daysTracked =
            Cardinality(SummariesIn(dailySummary, report.userId, StartOfMonth, EndOfMonth))
       /\ report.analytics.daysTracked >=
            Cardinality(DaysWithMeals(report.userId, StartOfMonth, EndOfMonth))
       /\ report.analytics.averageCalories =
            Average(report.analytics.totals.totalCalories, report.analytics.daysTracked)
  /\ report.kind = "stats" =>
       /\ report.daysTracked =
            Cardinality({ r \in dailySummary : r.userId = report.userId })
       /\ report.daysTracked >=
            Cardinality({ DayStart(m.mealDate) :
                            m \in { x \in meals : x.userId = report.userId } })

\* C30: a completeOnboarding that succeeds stores a dailyCalorieGoal that is
\* set and above zero, computed from a BMR above zero.
C30_OnboardingStoresPositiveGoal ==
  [][ \A u \in Users :
        (~profile[u].isOnboarded /\ profile'[u].isOnboarded) =>
          /\ CalculateBMR(profile'[u].weight, profile'[u].height, profile'[u].age,
                          profile'[u].gender) /= NULL
          /\ CalculateBMR(profile'[u].weight, profile'[u].height, profile'[u].age,
                          profile'[u].gender) > 0
          /\ dailyCalorieGoal'[u] /= NULL
          /\ dailyCalorieGoal'[u] > 0 ]_vars

====
